---- MODULE Spec2Model ----
(***************************************************************************)
(* Model of synth_samples_sdl2_2.c: a wavetable synthesizer.  Two threads  *)
(* share plain globals: the UI thread (run / main_loop / check_sdl_events  *)
(* / handle_note_keys) and the audio thread (audio_callback /              *)
(* write_samples).  Doubles are modelled in fixed point, see the scales.   *)
(***************************************************************************)
EXTENDS Integers, Sequences, FiniteSets, TLC

(***************************************************************************)
(* Program constants                                                       *)
(***************************************************************************)
sample_rate == 44100
table_length == 1024
max_note == 131
min_note == 12
init_note == 30
init_octave == 2
max_octave == 6
chunk_size == 64
pitch_offset == 57
pitch_base == 440
INT16_MAX == 32767
requested_buffer_size == 4096

\* chromatic_ratio = 1.059463094359295264562, in units of 1/RatioScale
chromatic_ratio == 10594631
\* pi = 3.14159265358979323846, in units of 1/AngleScale
pi == 314159265

\* fixed-point resolutions of the double values
RatioScale == 10000000
PitchScale == 1000
PhaseScale == 1000000
AngleScale == 100000000

(***************************************************************************)
(* Bounds of the model                                                     *)
(***************************************************************************)
\* stereo frames in a buffer of the noise program
MaxNoiseFrames == 3
\* longest table build_sine_table is asked for, besides table_length
MaxTableLength == 112
\* events and callbacks when the two threads are interleaved
MaxRaceEvents == 1
\* key events when the handlers' stores to note are interleaved with its reads
MaxTransientEvents == 2
MaxRaceCallbacks == 1
\* callbacks when audio_callback is driven alone
MaxCallbacks == 2
\* whole chunks in a destination buffer
MaxChunks == 2
\* whole chunks in the buffer of the callback that plays one held note
ToneChunks == 4

(***************************************************************************)
(* Arithmetic helpers                                                      *)
(***************************************************************************)
RECURSIVE MulDivQR(_, _, _)
\* <<floor(a*b/c), (a*b) mod c>> for a, b >= 0, c > 0, without forming a*b
MulDivQR(a, b, c) ==
    IF b = 0 THEN <<0, 0>>
    ELSE LET h == MulDivQR(a, b \div 2, c)
             add == IF b % 2 = 1 THEN a ELSE 0
             tot == 2 * h[2] + (add % c)
         IN  <<2 * h[1] + (add \div c) + (tot \div c), tot % c>>

\* floor(a*b/c) for a, b >= 0 (and -1 otherwise: never used)
MulDiv(a, b, c) == IF a < 0 \/ b < 0 \/ c <= 0 THEN -1 ELSE MulDivQR(a, b, c)[1]

\* C conversion of a double to an integer type: truncation toward zero
TruncDiv(a, b) == IF a >= 0 THEN a \div b ELSE -((-a) \div b)

(***************************************************************************)
(* get_pitch: pow(chromatic_ratio, note - 57) * 440, in units of           *)
(* 1/PitchScale Hz.  pow is modelled by fixed-point square-and-multiply,   *)
(* a negative exponent by the reciprocal.                                  *)
(***************************************************************************)
RECURSIVE PowRatio(_)
PowRatio(k) ==
    IF k = 0 THEN RatioScale
    ELSE IF k < 0 THEN MulDiv(RatioScale, RatioScale, PowRatio(-k))
    ELSE IF k % 2 = 0
      THEN LET h == PowRatio(k \div 2) IN MulDiv(h, h, RatioScale)
      ELSE MulDiv(PowRatio(k - 1), chromatic_ratio, RatioScale)

get_pitch(n) == MulDiv(PowRatio(n - pitch_offset), pitch_base * PitchScale, RatioScale)

(***************************************************************************)
(* get_pitch over the whole range of a double.  A double is modelled as    *)
(* its class and, when "finite", m * 2^e with the mantissa m in [1, 2) in   *)
(* units of 1/RatioScale.  "inf" is a result above the largest double,     *)
(* "zero" one that rounds to 0, "tiny" a subnormal that keeps fewer        *)
(* mantissa bits than the model carries, whose digits are not modelled.    *)
(***************************************************************************)
\* exponents of the largest and of the smallest normal double, and the bits
\* of the fraction of a normal double
DoubleMaxExp == 1023
DoubleMinExp == -1022
DoubleMantBits == 52

\* floor(log2(x)) for x >= 1
RECURSIVE BitsOf(_)
BitsOf(x) == IF x <= 1 THEN 0 ELSE 1 + BitsOf(x \div 2)

\* fraction bits of a double of exponent e: fewer below the normal range
FractionBits(e) ==
    IF e >= DoubleMinExp THEN DoubleMantBits ELSE DoubleMantBits - (DoubleMinExp - e)

Zero == [cls |-> "zero", e |-> 0, m |-> 0]
Tiny == [cls |-> "tiny", e |-> 0, m |-> 0]
Infinite == [cls |-> "inf", e |-> 0, m |-> 0]

\* the double nearest to m * 2^e, for m >= 1
RECURSIVE Double(_, _)
Double(e, m) ==
    IF m >= 2 * RatioScale THEN Double(e + 1, m \div 2)
    ELSE IF e > DoubleMaxExp THEN Infinite
    ELSE IF FractionBits(e) < -1 THEN Zero
    ELSE IF FractionBits(e) <= BitsOf(RatioScale) THEN Tiny
    ELSE [cls |-> "finite", e |-> e, m |-> m]

\* variant: the octave of an exponent, truncated toward zero
PowOctaveTruncated(k) == TruncDiv(k, 12)

\* whole octaves in k semitones
PowOctave(k) == k \div 12

\* pow(chromatic_ratio, k): chromatic_ratio is the twelfth root of two to the
\* last bit of a double, so twelve semitones double the value
pow_chromatic(k) == Double(PowOctave(k), PowRatio(k % 12))

\* x * k for a double x and an integer k > 0
RECURSIVE Times(_, _)
Times(x, k) ==
    IF x.cls # "finite" THEN x
    ELSE IF k % 2 = 0 THEN Times(Double(x.e + 1, x.m), k \div 2)
    ELSE Double(x.e, x.m * k)

\* get_pitch as a double
get_pitch_double(n) == Times(pow_chromatic(n - pitch_offset), pitch_base)

\* a finite double in units of 1/PitchScale, for 0 <= e
RECURSIVE PowerOfTwo(_)
PowerOfTwo(e) == IF e = 0 THEN 1 ELSE 2 * PowerOfTwo(e - 1)

InPitchScale(x) == MulDiv(x.m, PowerOfTwo(x.e) * PitchScale, RatioScale)

(***************************************************************************)
(* build_sine_table.  sin() is modelled in fixed point (1/AngleScale): the *)
(* angle 2*pi*i/wave_length is reduced to its quadrant and the Taylor      *)
(* series of sin or cos is summed on [0, pi/4].                            *)
(***************************************************************************)
RECURSIVE TaylorSum(_, _, _, _)
\* term - term*x2/((k+1)(k+2)) + ... while the terms are not 0
TaylorSum(term, x2, k, sign) ==
    IF term = 0 THEN 0
    ELSE sign * term
         + TaylorSum(MulDiv(term, x2, AngleScale) \div ((k + 1) * (k + 2)),
                     x2, k + 2, -sign)

SinTaylor(x) == TaylorSum(x, MulDiv(x, x, AngleScale), 1, 1)
CosTaylor(x) == TaylorSum(AngleScale, MulDiv(x, x, AngleScale), 0, 1)

\* sin and cos of an angle x in [0, pi/2]
SinQ(x) == IF 4 * x <= pi THEN SinTaylor(x) ELSE CosTaylor((pi \div 2) - x)
CosQ(x) == IF 4 * x <= pi THEN CosTaylor(x) ELSE SinTaylor((pi \div 2) - x)

\* sin(current_phase) after i additions of (2 * pi) / wave_length
SinOfStep(i, wave_length) ==
    LET quadrant == (4 * i) \div wave_length
        x == MulDiv((4 * i) % wave_length, pi, 2 * wave_length)
    IN  CASE quadrant % 4 = 0 -> SinQ(x)
          [] quadrant % 4 = 1 -> CosQ(x)
          [] quadrant % 4 = 2 -> -SinQ(x)
          [] OTHER -> -CosQ(x)

\* variant: the product is rounded down, not toward zero
SineSampleFloor(i, wave_length) ==
    LET v == SinOfStep(i, wave_length)
    IN  IF v >= 0 THEN MulDiv(v, INT16_MAX, AngleScale)
        ELSE -(MulDiv(-v - 1, INT16_MAX, AngleScale) + 1)

\* (int)(sin(current_phase) * INT16_MAX)
SineSample(i, wave_length) ==
    LET v == SinOfStep(i, wave_length)
    IN  IF v >= 0 THEN MulDiv(v, INT16_MAX, AngleScale)
        ELSE -MulDiv(-v, INT16_MAX, AngleScale)

build_sine_table(wave_length) ==
    [i \in 0..(wave_length - 1) |-> SineSample(i, wave_length)]

\* the table init_data builds
BuiltTable == build_sine_table(table_length)

(***************************************************************************)
(* State                                                                   *)
(***************************************************************************)
VARIABLES
    quit,               \* static bool quit
    note,               \* static int note
    octave,             \* static int octave
    phase_double,       \* static double phase_double, in units of 1/PhaseScale
    phase_int,          \* static int phase_int
    sine_wave_table,    \* contents of the table sine_wave_table points to
    table_freed,        \* the table has been passed to free()
    device_open,        \* the audio device is open
    ui_pc,              \* position of the UI thread in run()
    sym,                \* keysym->sym of the key event being handled
    new_note,           \* local new_note of handle_note_keys
    cb_pc,              \* position of the audio thread in audio_callback
    byte_stream,        \* the destination buffer, as Sint16 positions
    byte_stream_length, \* its length in bytes
    iterations,         \* local iterations of audio_callback
    chunk,              \* loop index i of audio_callback
    ws_i,               \* loop index i of write_samples
    phase_increment,    \* local phase_increment of write_samples
    \* history variables, read by the properties only
    ev_kind,            \* kind of the last event taken from the queue
    pre_note,           \* note when that event was dispatched
    pre_octave,         \* octave when that event was dispatched
    n_events,           \* events taken from the queue so far
    n_callbacks,        \* callback invocations so far
    entry_note,         \* note when the current invocation began
    entry_phase,        \* <<phase_double, phase_int>> when it began
    quit_seen,          \* what the invocation's quit test read
    note_reads,         \* values of note read by the invocation, in order
    read_ev,            \* event being handled at the last read of note (0: none)
    ticks,              \* the loop iterations of the invocation, in order:
                        \* <<position, increment added, index, index guard passed>>
    chunk_note,         \* chunk index -> note its phase_increment came from
    \* startup and diagnostics
    alloc_count,        \* static int alloc_count
    buffer_size,        \* static Uint16 buffer_size
    device_paused,      \* the audio device does not call audio_callback
    setup_result,       \* what setup_sdl_audio returned (-1: not called yet)
    printed,            \* note names printed for the latest event: <<note_to_char, print_note>>
    pitch,              \* the values get_pitch last returned, with their notes
    built_length,       \* wave_length of the last build_sine_table call, 0 before it
    writes,             \* positions the noise callback stored to, in order
    read_freed,         \* write_samples has read the table after it was freed
    prev_event          \* the octave key-down before the current event: <<key, note, octave>>

ui_vars == <<quit, note, octave, table_freed, device_open, ui_pc, sym, new_note,
             ev_kind, pre_note, pre_octave, n_events>>
cb_vars == <<phase_double, phase_int, cb_pc, byte_stream, byte_stream_length,
             iterations, chunk, ws_i, phase_increment, n_callbacks, entry_note,
             entry_phase, quit_seen, note_reads, read_ev, ticks, chunk_note>>
env_vars == <<alloc_count, buffer_size, device_paused, setup_result, printed, pitch,
              built_length, writes, read_freed,
                   prev_event>>
vars == <<ui_vars, cb_vars, sine_wave_table, env_vars>>

(***************************************************************************)
(* Keys.  handle_note_keys switches on keysym->sym.                        *)
(***************************************************************************)
LowerKeys == {"z", "s", "x", "d", "c", "v", "g", "b", "h", "n", "j", "m",
              "COMMA", "l", "PERIOD"}
UpperKeys == {"q", "2", "w", "3", "e", "r", "5", "t", "6", "y", "7", "u", "i",
              "9", "o", "0", "p"}
NoteKeys == LowerKeys \cup UpperKeys
\* keys the switch has no case for
OtherKeys == {"a", "SPACE"}
AllKeys == NoteKeys \cup {"PLUS", "MINUS"} \cup OtherKeys
\* the note keys in the order of their cases in the switch: the two keyboard rows
LowerRow == <<"z", "s", "x", "d", "c", "v", "g", "b", "h", "n", "j", "m",
              "COMMA", "l", "PERIOD">>
UpperRow == <<"q", "2", "w", "3", "e", "r", "5", "t", "6", "y", "7", "u",
              "i", "9", "o", "0", "p">>

\* keys of the specification that interleaves the two threads
RaceKeys == {"z", "PLUS", "MINUS", "a"}

\* the new_note assignments of the switch; -1 stands for "no case assigns"
SwitchNewNote(k) ==
    CASE k = "z" -> 12 [] k = "s" -> 13 [] k = "x" -> 14 [] k = "d" -> 15
      [] k = "c" -> 16 [] k = "v" -> 17 [] k = "g" -> 18 [] k = "b" -> 19
      [] k = "h" -> 20 [] k = "n" -> 21 [] k = "j" -> 22 [] k = "m" -> 23
      [] k = "COMMA" -> 24 [] k = "l" -> 25 [] k = "PERIOD" -> 26
      [] k = "q" -> 24 [] k = "2" -> 25 [] k = "w" -> 26 [] k = "3" -> 27
      [] k = "e" -> 28 [] k = "r" -> 29 [] k = "5" -> 30 [] k = "t" -> 31
      [] k = "6" -> 32 [] k = "y" -> 33 [] k = "7" -> 34 [] k = "u" -> 35
      [] k = "i" -> 36 [] k = "9" -> 37 [] k = "o" -> 38 [] k = "0" -> 39
      [] k = "p" -> 40
      [] OTHER -> -1

\* variant: the switch has no default case, other keys fall through to the end
SwitchTargetNoDefault(k) ==
    IF k = "PLUS" THEN "plus" ELSE IF k = "MINUS" THEN "minus" ELSE "assign"
\* where the switch of handle_note_keys goes for a key
SwitchTarget(k) ==
    IF k = "PLUS" THEN "plus"
    ELSE IF k = "MINUS" THEN "minus"
    ELSE IF SwitchNewNote(k) # -1 THEN "assign"
    ELSE "poll"

\* octave++; if(octave > 6) octave = 6;
OctaveUp(o) == IF o + 1 > max_octave THEN max_octave ELSE o + 1
\* variant: the step to the highest octave does not shift the note
OctaveUpShiftsBelowTop(o) == o + 1 < max_octave
\* variant: the note is shifted whether or not the octave was clamped
OctaveUpShiftsAlways(o) == TRUE
\* the else branch (note += 12) is taken
OctaveUpShifts(o) == ~(o + 1 > max_octave)
\* variant: the decrement stops at octave 1
OctaveDownShiftsAboveOne(o) == ~(o - 1 < 1)
\* octave--; if(octave < 0) octave = 0;
OctaveDown(o) == IF o - 1 < 0 THEN 0 ELSE o - 1
OctaveDownShifts(o) == ~(o - 1 < 0)
\* if(note > max_note) note = max_note;
ClampMax(n) == IF n > max_note THEN max_note ELSE n
\* variant: no lower clamp
ClampMinNone(n) == n
\* if(note < min_note) note = min_note;
ClampMin(n) == IF n < min_note THEN min_note ELSE n

HandlerPcs == {"plus", "plus_add", "plus_clamp", "minus", "minus_sub",
               "minus_clamp", "assign", "add_octave"}

\* variant: the octave key shifts the note by two octaves
ShiftUpTwoOctaves(n) == n + 24
\* note += 12;
ShiftUp(n) == n + 12
\* variant: the octave key shifts the note down by two octaves
ShiftDownTwoOctaves(n) == n - 24
\* variant: a shift of one semitone
ShiftDownSemitone(n) == n - 1
\* note -= 12;
ShiftDown(n) == n - 12
\* variant: the octave is taken off the note
AddOctaveSubtracts(n, o) == n - (o * 12)
\* variant: the octave counted in semitones
AddOctaveSemitones(n, o) == n + o
\* note += (octave * 12);
AddOctave(n, o) == n + (o * 12)

\* no bound on the number of events
Unbounded == {}
\* an event leaves the queue: limits holds the bound on their number, if any
Count(limits) ==
    IF limits = {} THEN UNCHANGED n_events
    ELSE (\A l \in limits : n_events < l) /\ n_events' = n_events + 1

(***************************************************************************)
(* Note names: note_to_char and print_note                                 *)
(***************************************************************************)
\* note_to_char: one case per note 12..131, "err" by default
note_to_char(n) ==
    CASE
         n = 12 -> "C-0" [] n = 13 -> "C#0" [] n = 14 -> "D-0" [] n = 15 -> "D#0"
      [] n = 16 -> "E-0" [] n = 17 -> "F-0" [] n = 18 -> "F#0" [] n = 19 -> "G-0"
      [] n = 20 -> "G#0" [] n = 21 -> "A-0" [] n = 22 -> "A#0" [] n = 23 -> "B-0"
      [] n = 24 -> "C-1" [] n = 25 -> "C#1" [] n = 26 -> "D-1" [] n = 27 -> "D#1"
      [] n = 28 -> "E-1" [] n = 29 -> "F-1" [] n = 30 -> "F#1" [] n = 31 -> "G-1"
      [] n = 32 -> "G#1" [] n = 33 -> "A-1" [] n = 34 -> "A#1" [] n = 35 -> "B-1"
      [] n = 36 -> "C-2" [] n = 37 -> "C#2" [] n = 38 -> "D-2" [] n = 39 -> "D#2"
      [] n = 40 -> "E-2" [] n = 41 -> "F-2" [] n = 42 -> "F#2" [] n = 43 -> "G-2"
      [] n = 44 -> "G#2" [] n = 45 -> "A-2" [] n = 46 -> "A#2" [] n = 47 -> "B-2"
      [] n = 48 -> "C-3" [] n = 49 -> "C#3" [] n = 50 -> "D-3" [] n = 51 -> "D#3"
      [] n = 52 -> "E-3" [] n = 53 -> "F-3" [] n = 54 -> "F#3" [] n = 55 -> "G-3"
      [] n = 56 -> "G#3" [] n = 57 -> "A-3" [] n = 58 -> "A#3" [] n = 59 -> "B-3"
      [] n = 60 -> "C-4" [] n = 61 -> "C#4" [] n = 62 -> "D-4" [] n = 63 -> "D#4"
      [] n = 64 -> "E-4" [] n = 65 -> "F-4" [] n = 66 -> "F#4" [] n = 67 -> "G-4"
      [] n = 68 -> "G#4" [] n = 69 -> "A-4" [] n = 70 -> "A#4" [] n = 71 -> "B-4"
      [] n = 72 -> "C-5" [] n = 73 -> "C#5" [] n = 74 -> "D-5" [] n = 75 -> "D#5"
      [] n = 76 -> "E-5" [] n = 77 -> "F-5" [] n = 78 -> "F#5" [] n = 79 -> "G-5"
      [] n = 80 -> "G#5" [] n = 81 -> "A-5" [] n = 82 -> "A#5" [] n = 83 -> "B-5"
      [] n = 84 -> "C-6" [] n = 85 -> "C#6" [] n = 86 -> "D-6" [] n = 87 -> "D#6"
      [] n = 88 -> "E-6" [] n = 89 -> "F-6" [] n = 90 -> "F#6" [] n = 91 -> "G-6"
      [] n = 92 -> "G#6" [] n = 93 -> "A-6" [] n = 94 -> "A#6" [] n = 95 -> "B-6"
      [] n = 96 -> "C-7" [] n = 97 -> "C#7" [] n = 98 -> "D-7" [] n = 99 -> "D#7"
      [] n = 100 -> "E-7" [] n = 101 -> "F-7" [] n = 102 -> "F#7" [] n = 103 -> "G-7"
      [] n = 104 -> "G#7" [] n = 105 -> "A-7" [] n = 106 -> "A#7" [] n = 107 -> "B-7"
      [] n = 108 -> "C-8" [] n = 109 -> "C#8" [] n = 110 -> "D-8" [] n = 111 -> "D#8"
      [] n = 112 -> "E-8" [] n = 113 -> "F-8" [] n = 114 -> "F#8" [] n = 115 -> "G-8"
      [] n = 116 -> "G#8" [] n = 117 -> "A-8" [] n = 118 -> "A#8" [] n = 119 -> "B-8"
      [] n = 120 -> "C-9" [] n = 121 -> "C#9" [] n = 122 -> "D-9" [] n = 123 -> "D#9"
      [] n = 124 -> "E-9" [] n = 125 -> "F-9" [] n = 126 -> "F#9" [] n = 127 -> "G-9"
      [] n = 128 -> "G#9" [] n = 129 -> "A-9" [] n = 130 -> "A#9" [] n = 131 -> "B-9"
      [] OTHER -> "err"

\* what printf("%s") prints for the NULL that note_chars starts as
NullChars == "(null)"

\* print_note: the switch on note%12; no case leaves note_chars NULL
NoteChars(note_without_octave) ==
    CASE note_without_octave = 0 -> "C-" [] note_without_octave = 1 -> "C#"
      [] note_without_octave = 2 -> "D-" [] note_without_octave = 3 -> "D#"
      [] note_without_octave = 4 -> "E-" [] note_without_octave = 5 -> "F-"
      [] note_without_octave = 6 -> "F#" [] note_without_octave = 7 -> "G-"
      [] note_without_octave = 8 -> "G#" [] note_without_octave = 9 -> "A-"
      [] note_without_octave = 10 -> "A#" [] note_without_octave = 11 -> "B-"
      [] OTHER -> NullChars

\* print_note: note_octave, drawn one too high
NoteOctaveNoOffset(n) == n \div 12

\* print_note: note_octave = (note/12)-1
NoteOctave(n) == (n \div 12) - 1

DigitChars == <<"0", "1", "2", "3", "4", "5", "6", "7", "8", "9">>

\* printf's %d
RECURSIVE FormatInt(_)
FormatInt(v) ==
    IF v < 0 THEN "-" \o FormatInt(-v)
    ELSE IF v < 10 THEN DigitChars[v + 1]
    ELSE FormatInt(v \div 10) \o DigitChars[(v % 10) + 1]

\* print_note: the "%s%d" part of the line it prints
print_note(n) == NoteChars(n - 12 * TruncDiv(n, 12)) \o FormatInt(NoteOctave(n))

\* no octave key-down came right before the current event
NoOctaveEvent == <<"", 0, 0>>
\* the event handled last, when it was a key-down of PLUS or MINUS: the key and
\* the note and octave it found; check_sdl_events takes the next event after it
LastOctaveEvent ==
    IF ev_kind = "keydown" /\ sym \in {"PLUS", "MINUS"}
      THEN <<sym, pre_note, pre_octave>>
      ELSE NoOctaveEvent
\* what an event leaves alone outside the UI thread's own variables
env_kept == <<alloc_count, buffer_size, device_paused, setup_result, pitch,
              built_length, writes, read_freed>>

(***************************************************************************)
(* UI thread: run, main_loop, check_sdl_events, handle_note_keys           *)
(***************************************************************************)
\* variant: the loop does not test quit
LoopContinuesAlways(q) == TRUE
\* while (!quit)
LoopContinues(q) == ~q

\* while (!quit) main_loop(); then cleanup_data
RunLoopTest ==
    /\ ui_pc = "while"
    /\ ui_pc' = IF LoopContinues(quit) THEN "poll" ELSE "cleanup"
    /\ UNCHANGED <<quit, note, octave, table_freed, device_open, sym, new_note,
                   ev_kind, pre_note, pre_octave, n_events>>
    /\ UNCHANGED <<cb_vars, sine_wave_table, env_vars>>

\* SDL_PollEvent returns 0: check_sdl_events returns, main_loop renders and delays
NoEvent ==
    /\ ui_pc = "poll"
    /\ ui_pc' = "while"
    /\ UNCHANGED <<quit, note, octave, table_freed, device_open, sym, new_note,
                   ev_kind, pre_note, pre_octave, n_events>>
    /\ UNCHANGED <<cb_vars, sine_wave_table, env_vars>>

\* case SDL_QUIT
QuitEvent(limits) ==
    /\ ui_pc = "poll"
    /\ Count(limits)
    /\ quit' = TRUE
    /\ ev_kind' = "quit"
    /\ pre_note' = note
    /\ pre_octave' = octave
    /\ UNCHANGED <<note, octave, table_freed, device_open, ui_pc, sym, new_note>>
    /\ prev_event' = LastOctaveEvent
    /\ printed' = <<>>
    /\ UNCHANGED <<cb_vars, sine_wave_table, env_kept>>

\* case SDL_KEYUP: handle_key_up has an empty body
KeyUp(limits) ==
    /\ ui_pc = "poll"
    /\ Count(limits)
    /\ ev_kind' = "keyup"
    /\ pre_note' = note
    /\ pre_octave' = octave
    /\ UNCHANGED <<quit, note, octave, table_freed, device_open, ui_pc, sym, new_note>>
    /\ prev_event' = LastOctaveEvent
    /\ printed' = <<>>
    /\ UNCHANGED <<cb_vars, sine_wave_table, env_kept>>

\* case SDL_KEYDOWN: handle_key_down -> handle_note_keys, up to the switch
KeyDown(keys, limits) ==
    /\ ui_pc = "poll"
    /\ Count(limits)
    /\ \E k \in keys :
         /\ sym' = k
         /\ new_note' = IF SwitchNewNote(k) # -1 THEN SwitchNewNote(k) ELSE note
         /\ ui_pc' = SwitchTarget(k)
    /\ ev_kind' = "keydown"
    /\ pre_note' = note
    /\ pre_octave' = octave
    /\ UNCHANGED <<quit, note, octave, table_freed, device_open>>
    /\ prev_event' = LastOctaveEvent
    /\ printed' = <<>>
    /\ UNCHANGED <<cb_vars, sine_wave_table, env_kept>>

\* case SDLK_PLUS: octave++; if(octave > 6) octave = 6; else ...
PlusOctave ==
    /\ ui_pc = "plus"
    /\ octave' = OctaveUp(octave)
    /\ ui_pc' = IF OctaveUpShifts(octave) THEN "plus_add" ELSE "poll"
    /\ UNCHANGED <<quit, note, table_freed, device_open, sym, new_note,
                   ev_kind, pre_note, pre_octave, n_events>>
    /\ UNCHANGED <<cb_vars, sine_wave_table, env_vars>>

\* note += 12;
PlusAdd ==
    /\ ui_pc = "plus_add"
    /\ note' = ShiftUp(note)
    /\ ui_pc' = "plus_clamp"
    /\ UNCHANGED <<quit, octave, table_freed, device_open, sym, new_note,
                   ev_kind, pre_note, pre_octave, n_events>>
    /\ UNCHANGED <<cb_vars, sine_wave_table, env_vars>>

\* if(note > max_note) note = max_note; ... return
PlusClamp ==
    /\ ui_pc = "plus_clamp"
    /\ note' = ClampMax(note)
    /\ ui_pc' = "poll"
    /\ UNCHANGED <<quit, octave, table_freed, device_open, sym, new_note,
                   ev_kind, pre_note, pre_octave, n_events>>
    /\ UNCHANGED <<cb_vars, sine_wave_table, env_vars>>

\* case SDLK_MINUS: octave--; if(octave < 0) octave = 0; else ...
MinusOctave ==
    /\ ui_pc = "minus"
    /\ octave' = OctaveDown(octave)
    /\ ui_pc' = IF OctaveDownShifts(octave) THEN "minus_sub" ELSE "poll"
    /\ UNCHANGED <<quit, note, table_freed, device_open, sym, new_note,
                   ev_kind, pre_note, pre_octave, n_events>>
    /\ UNCHANGED <<cb_vars, sine_wave_table, env_vars>>

\* note -= 12;
MinusSub ==
    /\ ui_pc = "minus_sub"
    /\ note' = ShiftDown(note)
    /\ ui_pc' = "minus_clamp"
    /\ UNCHANGED <<quit, octave, table_freed, device_open, sym, new_note,
                   ev_kind, pre_note, pre_octave, n_events>>
    /\ UNCHANGED <<cb_vars, sine_wave_table, env_vars>>

\* if(note < min_note) note = min_note; ... return
MinusClamp ==
    /\ ui_pc = "minus_clamp"
    /\ note' = ClampMin(note)
    /\ ui_pc' = "poll"
    /\ UNCHANGED <<quit, octave, table_freed, device_open, sym, new_note,
                   ev_kind, pre_note, pre_octave, n_events>>
    /\ UNCHANGED <<cb_vars, sine_wave_table, env_vars>>

\* if(new_note > -1) { note = new_note;
NoteAssign ==
    /\ ui_pc = "assign"
    /\ IF new_note > -1
         THEN note' = new_note /\ ui_pc' = "add_octave"
         ELSE UNCHANGED note /\ ui_pc' = "poll"
    /\ UNCHANGED <<quit, octave, table_freed, device_open, sym, new_note,
                   ev_kind, pre_note, pre_octave, n_events>>
    /\ UNCHANGED <<cb_vars, sine_wave_table, env_vars>>

\* the names the handler prints for note n: note_to_char(note) in
\* synth_samples_sdl2_2.c, print_note(note) in the copy under src/src
NamesOf(n) == <<note_to_char(n), print_note(n)>>

\* note += (octave * 12); then the note is printed
NoteAddOctave ==
    /\ ui_pc = "add_octave"
    /\ note' = AddOctave(note, octave)
    /\ printed' = NamesOf(AddOctave(note, octave))
    /\ ui_pc' = "poll"
    /\ UNCHANGED <<quit, octave, table_freed, device_open, sym, new_note,
                   ev_kind, pre_note, pre_octave, n_events>>
    /\ UNCHANGED <<cb_vars, sine_wave_table, alloc_count, buffer_size,
                   device_paused, setup_result, pitch, built_length, writes,
                   read_freed, prev_event>>

\* sine_wave_table is NULL: the table with no entry
NullTable == [i \in {} |-> 0]

\* cleanup_data: free_memory(sine_wave_table): if(ptr != NULL) { free(ptr);
\* alloc_count--; }; the pointer is left as it was
CleanupData ==
    /\ ui_pc = "cleanup"
    /\ table_freed' = (sine_wave_table # NullTable)
    /\ alloc_count' = IF sine_wave_table # NullTable THEN alloc_count - 1 ELSE alloc_count
    /\ ui_pc' = "close_audio"
    /\ UNCHANGED <<quit, note, octave, device_open, sym, new_note,
                   ev_kind, pre_note, pre_octave, n_events>>
    /\ UNCHANGED <<cb_vars, sine_wave_table>>
    /\ UNCHANGED <<buffer_size, device_paused, setup_result, printed, pitch,
                   built_length, writes, read_freed,
                   prev_event>>

\* destroy_sdl; SDL_CloseAudioDevice waits for a running callback to return
CloseAudioDevice ==
    /\ ui_pc = "close_audio"
    /\ cb_pc \in {"idle", "done"}
    /\ device_open' = FALSE
    /\ ui_pc' = "done"
    /\ UNCHANGED <<quit, note, octave, table_freed, sym, new_note,
                   ev_kind, pre_note, pre_octave, n_events>>
    /\ UNCHANGED <<cb_vars, sine_wave_table, env_vars>>

HandleKey ==
    \/ PlusOctave \/ PlusAdd \/ PlusClamp
    \/ MinusOctave \/ MinusSub \/ MinusClamp
    \/ NoteAssign \/ NoteAddOctave

Shutdown == CleanupData \/ CloseAudioDevice

\* variant: the count goes up whether or not malloc returned a block
AllocCountAlways(allocated, count) == count + 1
\* alloc_memory: if(ptr == NULL) { ... } else { alloc_count++; }
AllocCount(allocated, count) == IF allocated THEN count + 1 ELSE count

\* init_data: sine_wave_table = alloc_memory(...); build_sine_table(sine_wave_table,
\* table_length).  With a null table build_sine_table stores through a null
\* pointer, which is undefined: the process faults, or goes on.
InitData ==
    /\ ui_pc = "init_data"
    /\ \E allocated \in BOOLEAN :
         /\ alloc_count' = AllocCount(allocated, alloc_count)
         /\ IF allocated
              THEN /\ sine_wave_table' = build_sine_table(table_length)
                   /\ ui_pc' = "setup_audio"
              ELSE /\ sine_wave_table' = NullTable
                   /\ \E fault \in BOOLEAN :
                        ui_pc' = IF fault THEN "crashed" ELSE "setup_audio"
    /\ UNCHANGED <<quit, note, octave, table_freed, device_open, sym, new_note,
                   ev_kind, pre_note, pre_octave, n_events>>
    /\ built_length' = table_length
    /\ UNCHANGED <<buffer_size, device_paused, setup_result, printed, pitch,
                   writes, read_freed,
                   prev_event>>
    /\ UNCHANGED cb_vars

\* buffer sizes the audio device grants
ObtainedSamples == {requested_buffer_size \div 2, requested_buffer_size}

\* setup_sdl_audio: if (audio_device == 0) return 1; if (audio_spec.format !=
\* want.format) return 2; ...; return 0;
SetupReturn(opened, same_format) ==
    IF ~opened THEN 1 ELSE IF ~same_format THEN 2 ELSE 0
\* variant: the device is unpaused whatever the outcome
PausedAfterSetupNever(rc) == FALSE
\* SDL_PauseAudioDevice(audio_device, 0) is reached only before return 0
PausedAfterSetup(rc) == rc # 0
\* buffer_size = audio_spec.samples is reached only before return 0
BufferSizeAfterSetup(rc, samples, size) == IF rc = 0 THEN samples ELSE size

\* run: setup_sdl(); setup_sdl_audio(); the value returned is dropped
SetupSdlAudio ==
    /\ ui_pc = "setup_audio"
    /\ \E opened \in BOOLEAN, same_format \in BOOLEAN, samples \in ObtainedSamples :
         LET rc == SetupReturn(opened, same_format)
         IN  /\ setup_result' = rc
             /\ device_open' = opened
             /\ device_paused' = PausedAfterSetup(rc)
             /\ buffer_size' = BufferSizeAfterSetup(rc, samples, buffer_size)
    /\ ui_pc' = "while"
    /\ UNCHANGED <<quit, note, octave, table_freed, sym, new_note,
                   ev_kind, pre_note, pre_octave, n_events>>
    /\ UNCHANGED <<alloc_count, printed, pitch, built_length, writes, read_freed,
                   prev_event>>
    /\ UNCHANGED <<cb_vars, sine_wave_table>>

(***************************************************************************)
(* Audio thread: audio_callback and write_samples                          *)
(***************************************************************************)
\* what the destination buffer holds before the call: not a sample value
StaleSample == -INT16_MAX - 1

\* any function with the empty domain
EmptyMap == [x \in {} |-> 0]

\* byte lengths the host calls with: whole chunks plus a tail, odd lengths included
TailBytes == {0, 1, 2, 4}
BytesPerChunk == 2 * chunk_size
ByteLengths == {c * BytesPerChunk + t : c \in 0..MaxChunks, t \in TailBytes}
\* byte lengths of the specification that interleaves the two threads
RaceLengths == {MaxChunks * BytesPerChunk}

\* (get_pitch(d_note) / d_sample_rate) * d_table_length, in 1/PhaseScale
PhaseIncrementOf(n) ==
    MulDiv(get_pitch(n), table_length * PhaseScale, sample_rate * PitchScale)

NoteDomain == (-12)..(max_note + 12)
IncrementTable == [n \in NoteDomain |-> PhaseIncrementOf(n)]
PhaseIncrement(n) ==
    IF n \in NoteDomain THEN IncrementTable[n] ELSE PhaseIncrementOf(n)

\* variant: no early return
QuitCheckNever(q) == FALSE
\* if(quit) return;
QuitCheck(q) == q
\* variant: note 0 sounds
NoteActiveFromZero(n) == n >= 0
\* if(note > 0)
NoteActive(n) == n > 0
\* variant: a partial chunk at the end counts as a chunk
IterationsRoundedUp(len) == ((len \div 2) + chunk_size - 1) \div chunk_size
\* int remain = byte_stream_length / 2; int iterations = remain/chunk_size;
Iterations(len) == (len \div 2) \div chunk_size
\* variant: at the end of the chunk loop the callback starts over
NextChunkPcRestart(c, iters) == IF c < iters THEN "ws_test" ELSE "quit_test"
\* for(long i = 0; i < iterations; i++)
NextChunkPc(c, iters) == IF c < iters THEN "ws_test" ELSE "done"
\* variant: the pitch is read from note at every frame
FrameIncrementPerFrame(local_increment, current_note) == PhaseIncrement(current_note)
\* the increment a frame adds: the local computed when write_samples began
FrameIncrement(local_increment, current_note) == local_increment
\* variant: the wrap waits until the phase is a quarter table past the end
WrapLate(p) ==
    IF p >= (table_length + table_length \div 4) * PhaseScale
        THEN p - table_length * PhaseScale ELSE p
\* if(phase_double >= table_length) phase_double = phase_double - table_length
Wrap(p) == IF p >= table_length * PhaseScale THEN p - table_length * PhaseScale ELSE p
\* variant: the index is rounded to nearest
PhaseIndexRounded(p) == TruncDiv(p + (PhaseScale \div 2), PhaseScale)
\* (int)phase_double
PhaseIndex(p) == TruncDiv(p, PhaseScale)
\* variant: the guard rejects index 0
IndexInTablePositive(idx) == idx < table_length /\ idx > 0
\* if(phase_int < table_length && phase_int > -1)
IndexInTable(idx) == idx < table_length /\ idx > -1
\* variant: the product is rounded down
ScaleSampleFloor(raw) == (raw * 3) \div 10
\* sample *= 0.3, converted back to int16_t
ScaleSample(raw) == TruncDiv(raw * 3, 10)
\* variant: only the left channel is written
WriteFrameLeftOnly(buf, pos, sample) == [buf EXCEPT ![pos] = sample]
\* s_byteStream[i+begin] = sample; s_byteStream[i+begin+1] = sample;
WriteFrame(buf, pos, sample) == [buf EXCEPT ![pos] = sample, ![pos + 1] = sample]

\* the host calls audio_callback with a buffer of len bytes, at most limit times
Invoke(lengths, limit) ==
    /\ cb_pc \in {"idle", "done"}
    /\ device_open /\ ~device_paused
    /\ n_callbacks < limit
    /\ n_callbacks' = n_callbacks + 1
    /\ \E len \in lengths :
         /\ byte_stream_length' = len
         /\ byte_stream' = [p \in 0..((len \div 2) - 1) |-> StaleSample]
    /\ cb_pc' = "memset"
    /\ entry_note' = note
    /\ entry_phase' = <<phase_double, phase_int>>
    /\ quit_seen' = FALSE
    /\ note_reads' = <<>>
    /\ read_ev' = 0
    /\ ticks' = <<>>
    /\ chunk_note' = EmptyMap
    /\ UNCHANGED <<phase_double, phase_int, iterations, chunk, ws_i, phase_increment>>
    /\ UNCHANGED <<ui_vars, sine_wave_table, env_vars>>

\* memset that also runs over the wavetable
MemsetClearsTable ==
    /\ cb_pc = "memset"
    /\ byte_stream' = [p \in DOMAIN byte_stream |-> 0]
    /\ sine_wave_table' = [p \in DOMAIN sine_wave_table |-> 0]
    /\ cb_pc' = "quit_test"
    /\ UNCHANGED <<phase_double, phase_int, byte_stream_length, iterations, chunk,
                   ws_i, phase_increment, n_callbacks, entry_note, entry_phase,
                   quit_seen, note_reads, read_ev, ticks, chunk_note>>
    /\ UNCHANGED <<ui_vars, env_vars>>

\* variant: memset over the whole chunks only
MemsetWholeChunks ==
    /\ cb_pc = "memset"
    /\ byte_stream' =
           [p \in DOMAIN byte_stream |->
               IF p < chunk_size * ((byte_stream_length \div 2) \div chunk_size)
                 THEN 0 ELSE byte_stream[p]]
    /\ cb_pc' = "quit_test"
    /\ UNCHANGED <<phase_double, phase_int, byte_stream_length, iterations, chunk,
                   ws_i, phase_increment, n_callbacks, entry_note, entry_phase,
                   quit_seen, note_reads, read_ev, ticks, chunk_note>>
    /\ UNCHANGED <<ui_vars, sine_wave_table, env_vars>>

\* memset(byte_stream, 0, byte_stream_length);
Memset ==
    /\ cb_pc = "memset"
    /\ byte_stream' = [p \in DOMAIN byte_stream |-> 0]
    /\ cb_pc' = "quit_test"
    /\ UNCHANGED <<phase_double, phase_int, byte_stream_length, iterations, chunk,
                   ws_i, phase_increment, n_callbacks, entry_note, entry_phase,
                   quit_seen, note_reads, read_ev, ticks, chunk_note>>
    /\ UNCHANGED <<ui_vars, sine_wave_table, env_vars>>

\* if(quit) return; remain, chunk_size, iterations; first test of the for loop
QuitTest ==
    /\ cb_pc = "quit_test"
    /\ quit_seen' = quit
    /\ IF QuitCheck(quit)
         THEN cb_pc' = "done" /\ UNCHANGED <<iterations, chunk>>
         ELSE /\ iterations' = Iterations(byte_stream_length)
              /\ chunk' = 0
              /\ cb_pc' = NextChunkPc(0, Iterations(byte_stream_length))
    /\ UNCHANGED <<phase_double, phase_int, byte_stream, byte_stream_length,
                   ws_i, phase_increment, n_callbacks, entry_note, entry_phase,
                   note_reads, read_ev, ticks, chunk_note>>
    /\ UNCHANGED <<ui_vars, sine_wave_table, env_vars>>

\* the event the UI thread is in the middle of handling (0: none)
EventInProgress == IF ui_pc \in HandlerPcs THEN n_events ELSE 0

\* write_samples: if(note > 0); when not, back to the for loop
WsTest ==
    /\ cb_pc = "ws_test"
    /\ note_reads' = Append(note_reads, note)
    /\ read_ev' = EventInProgress
    /\ IF NoteActive(note)
         THEN cb_pc' = "ws_read" /\ UNCHANGED chunk
         ELSE chunk' = chunk + 1 /\ cb_pc' = NextChunkPc(chunk + 1, iterations)
    /\ UNCHANGED <<phase_double, phase_int, byte_stream, byte_stream_length,
                   iterations, ws_i, phase_increment, n_callbacks, entry_note,
                   entry_phase, quit_seen, ticks, chunk_note>>
    /\ UNCHANGED <<ui_vars, sine_wave_table, env_vars>>

\* double d_note = note; double phase_increment = ...; int i = 0
WsRead ==
    /\ cb_pc = "ws_read"
    /\ note_reads' = Append(note_reads, note)
    /\ read_ev' = EventInProgress
    /\ phase_increment' = PhaseIncrement(note)
    /\ chunk_note' = [c \in DOMAIN chunk_note \cup {chunk} |->
                        IF c = chunk THEN note ELSE chunk_note[c]]
    /\ ws_i' = 0
    /\ cb_pc' = "ws_loop"
    /\ UNCHANGED <<phase_double, phase_int, byte_stream, byte_stream_length,
                   iterations, chunk, n_callbacks, entry_note, entry_phase,
                   quit_seen, ticks>>
    /\ UNCHANGED <<ui_vars, sine_wave_table, env_vars>>

\* one iteration of the for loop of write_samples, on
\* variant: each chunk begins half a chunk after the one before
ChunkBeginOverlapping(c) == c * (chunk_size \div 2)
\* long begin = i*chunk_size;
ChunkBegin(c) == c * chunk_size

\* st = [i, pd, idx, buf, ticks, tab]: the loop index, phase_double, phase_int,
\* the buffer, the history of the invocation and what reads of the table
\* return
Tick(st) ==
    LET inc == FrameIncrement(phase_increment, note)
        pd == Wrap(st.pd + inc)
        idx == PhaseIndex(pd)
        pos == st.i + ChunkBegin(chunk)
        hit == IndexInTable(idx)
    IN  [i |-> st.i + 2,
         pd |-> pd,
         idx |-> idx,
         buf |-> IF hit
                   THEN WriteFrame(st.buf, pos, ScaleSample(st.tab[idx]))
                   ELSE st.buf,
         ticks |-> Append(st.ticks, <<pos, inc, idx, hit>>),
         tab |-> st.tab]

RECURSIVE Frames(_)
\* for (int i = 0; i < length; i+=2) { ... }, from the loop state st on;
\* length is chunk_size
Frames(st) ==
    IF st.i < chunk_size
      THEN CHOOSE r \in {Frames(t) : t \in {Tick(st)}} : TRUE
      ELSE st

\* what a read through a null or a dangling sine_wave_table can find at its
\* address
GarbageSamples == {StaleSample, 0, INT16_MAX}

GarbageTables ==
    {[fault |-> FALSE, tab |-> [i \in 0..(table_length - 1) |-> g]] :
         g \in GarbageSamples}

\* sine_wave_table[phase_int]: the table as the loop reads it.  Reading through
\* a null pointer is undefined: the process faults, or the reads return
\* whatever lies there.  Reading the table after free() is undefined too: the
\* block stays mapped, and the reads return the old entries or whatever the
\* allocator or another thread has put there since.
ReadOutcomes ==
    IF sine_wave_table = NullTable
      THEN {[fault |-> TRUE, tab |-> NullTable]} \cup GarbageTables
      ELSE IF table_freed
        THEN {[fault |-> FALSE, tab |-> sine_wave_table]} \cup GarbageTables
        ELSE {[fault |-> FALSE, tab |-> sine_wave_table]}

\* the for loop of write_samples, then back to the for loop of audio_callback.
\* The loop works on the audio thread's own phase, locals and buffer: it is one step.
WsLoop ==
    /\ cb_pc = "ws_loop"
    /\ \E o \in ReadOutcomes :
         IF o.fault
           THEN /\ cb_pc' = "crashed"
                /\ ui_pc' = "crashed"
                /\ UNCHANGED <<quit, note, octave, table_freed, device_open, sym,
                               new_note, ev_kind, pre_note, pre_octave, n_events>>
                /\ UNCHANGED <<phase_double, phase_int, byte_stream, ws_i, ticks, chunk,
                               read_freed,
                   prev_event>>
           ELSE /\ \E st \in {Frames([i |-> ws_i, pd |-> phase_double,
                                        idx |-> phase_int, buf |-> byte_stream,
                                        ticks |-> ticks, tab |-> o.tab])} :
                       /\ ws_i' = st.i
                       /\ phase_double' = st.pd
                       /\ phase_int' = st.idx
                       /\ byte_stream' = st.buf
                       /\ ticks' = st.ticks
                /\ chunk' = chunk + 1
                /\ cb_pc' = NextChunkPc(chunk + 1, iterations)
                /\ read_freed' = (read_freed \/ table_freed)
                /\ UNCHANGED ui_vars
    /\ UNCHANGED <<byte_stream_length, iterations, phase_increment, n_callbacks,
                   entry_note, entry_phase, quit_seen, note_reads, read_ev,
                   chunk_note>>
    /\ UNCHANGED <<sine_wave_table, alloc_count, buffer_size, device_paused,
                   setup_result, printed, pitch, built_length, writes,
                   prev_event>>

Callback == Memset \/ QuitTest \/ WsTest \/ WsRead \/ WsLoop

(***************************************************************************)
(* The noise program, synth_samples_sdl2_1.c.  Its audio_callback fills    *)
(* the buffer with random samples.  It has the same globals and the same   *)
(* host, so it is modelled on the variables of the synthesizer: quit, the  *)
(* destination buffer, cb_pc, and ws_i for the loop index i.               *)
(***************************************************************************)
\* byte lengths the host calls with: whole stereo frames of two Sint16
NoiseLengths == {4 * f : f \in 0..MaxNoiseFrames}

\* values of rand(): the ends of the range of rand()%(INT16_MAX*2) and the
\* two values around the end of the range of a Sint16
RandValues == {0, INT16_MAX, INT16_MAX + 1, 2 * INT16_MAX - 1, 2 * INT16_MAX}

\* conversion of an int to Sint16 on two's complement hardware
ToSint16(x) == ((x + INT16_MAX + 1) % (2 * (INT16_MAX + 1))) - (INT16_MAX + 1)

\* Sint16 sample = (Sint16)(rand()%(INT16_MAX*2))-INT16_MAX; sample *= 0.3;
NoiseSample(r) ==
    ScaleSample(ToSint16(ToSint16(r % (INT16_MAX * 2)) - INT16_MAX))

\* variant: remain counts frames
NoiseRemainFrames(len) == len \div 4

\* int remain = byte_stream_length / 2;
NoiseRemain(len) == len \div 2

\* case SDL_QUIT: quit = true;
NoiseQuitEvent ==
    /\ ~quit
    /\ quit' = TRUE
    /\ UNCHANGED <<note, octave, table_freed, device_open, ui_pc, sym, new_note,
                   ev_kind, pre_note, pre_octave, n_events>>
    /\ UNCHANGED <<cb_vars, sine_wave_table, env_vars>>

\* the host calls audio_callback
NoiseInvoke ==
    /\ cb_pc \in {"idle", "done"}
    /\ n_callbacks < MaxCallbacks
    /\ n_callbacks' = n_callbacks + 1
    /\ \E len \in NoiseLengths :
         /\ byte_stream_length' = len
         /\ byte_stream' = [p \in 0..((len \div 2) - 1) |-> StaleSample]
    /\ cb_pc' = "noise_memset"
    /\ quit_seen' = FALSE
    /\ writes' = <<>>
    /\ UNCHANGED <<phase_double, phase_int, iterations, chunk, ws_i, phase_increment,
                   entry_note, entry_phase, note_reads, read_ev, ticks, chunk_note>>
    /\ UNCHANGED <<ui_vars, sine_wave_table, alloc_count, buffer_size, device_paused,
                   setup_result, printed, pitch, built_length, read_freed,
                   prev_event>>

\* memset(byte_stream, 0, byte_stream_length);
NoiseMemset ==
    /\ cb_pc = "noise_memset"
    /\ byte_stream' = [p \in DOMAIN byte_stream |-> 0]
    /\ cb_pc' = "noise_quit_test"
    /\ UNCHANGED <<phase_double, phase_int, byte_stream_length, iterations, chunk,
                   ws_i, phase_increment, n_callbacks, entry_note, entry_phase,
                   quit_seen, note_reads, read_ev, ticks, chunk_note>>
    /\ UNCHANGED <<ui_vars, sine_wave_table, env_vars>>

\* if(quit) return; ... for (int i = 0;
NoiseQuitTest ==
    /\ cb_pc = "noise_quit_test"
    /\ quit_seen' = quit
    /\ IF quit THEN cb_pc' = "done" /\ UNCHANGED ws_i
               ELSE cb_pc' = "noise_loop" /\ ws_i' = 0
    /\ UNCHANGED <<phase_double, phase_int, byte_stream, byte_stream_length,
                   iterations, chunk, phase_increment, n_callbacks, entry_note,
                   entry_phase, note_reads, read_ev, ticks, chunk_note>>
    /\ UNCHANGED <<ui_vars, sine_wave_table, env_vars>>

\* one test of i < remain and, when it holds, one iteration of the loop
NoiseLoop ==
    /\ cb_pc = "noise_loop"
    /\ IF ws_i < NoiseRemain(byte_stream_length)
         THEN /\ \E r \in RandValues :
                    byte_stream' = WriteFrame(byte_stream, ws_i, NoiseSample(r))
              /\ writes' = writes \o <<ws_i, ws_i + 1>>
              /\ ws_i' = ws_i + 2
              /\ cb_pc' = "noise_loop"
         ELSE /\ cb_pc' = "done"
              /\ UNCHANGED <<byte_stream, writes, ws_i>>
    /\ UNCHANGED <<phase_double, phase_int, byte_stream_length, iterations, chunk,
                   phase_increment, n_callbacks, entry_note, entry_phase, quit_seen,
                   note_reads, read_ev, ticks, chunk_note>>
    /\ UNCHANGED <<ui_vars, sine_wave_table, alloc_count, buffer_size, device_paused,
                   setup_result, printed, pitch, built_length, read_freed,
                   prev_event>>

NoiseCallback == NoiseMemset \/ NoiseQuitTest \/ NoiseLoop

(***************************************************************************)
(* Specifications                                                          *)
(***************************************************************************)
\* the statically initialised globals, the idle audio thread, empty histories
InitCommon ==
    /\ quit = FALSE
    /\ note = init_note
    /\ octave = init_octave
    /\ phase_double = 0
    /\ phase_int = 0
    /\ table_freed = FALSE
    /\ sym = "none"
    /\ new_note = 0
    /\ cb_pc = "idle"
    /\ byte_stream = EmptyMap
    /\ byte_stream_length = 0
    /\ iterations = 0
    /\ chunk = 0
    /\ ws_i = 0
    /\ phase_increment = 0
    /\ ev_kind = "none"
    /\ pre_note = init_note
    /\ pre_octave = init_octave
    /\ n_events = 0
    /\ n_callbacks = 0
    /\ entry_note = init_note
    /\ entry_phase = <<0, 0>>
    /\ quit_seen = FALSE
    /\ note_reads = <<>>
    /\ read_ev = 0
    /\ ticks = <<>>
    /\ chunk_note = EmptyMap
    /\ buffer_size = requested_buffer_size
    /\ printed = <<>>
    /\ pitch = <<>>
    /\ writes = <<>>
    /\ read_freed = FALSE
    /\ prev_event = NoOctaveEvent

\* the state when run() reaches its event loop after init_data and the SDL
\* setup went well, the device granting the requested buffer size
InitProgram ==
    /\ InitCommon
    /\ sine_wave_table = BuiltTable
    /\ alloc_count = 1
    /\ device_open = TRUE
    /\ device_paused = FALSE
    /\ setup_result = 0
    /\ built_length = table_length
    /\ ui_pc = "while"

\* the state when run() is entered
InitStartup ==
    /\ InitCommon
    /\ sine_wave_table = NullTable
    /\ alloc_count = 0
    /\ device_open = FALSE
    /\ device_paused = TRUE
    /\ setup_result = -1
    /\ built_length = 0
    /\ ui_pc = "init_data"

Init == InitProgram

\* both threads, a bounded number of events and of callbacks
Next ==
    \/ RunLoopTest \/ NoEvent
    \/ QuitEvent({MaxRaceEvents}) \/ KeyUp({MaxRaceEvents})
    \/ KeyDown(RaceKeys, {MaxRaceEvents})
    \/ HandleKey
    \/ Shutdown
    \/ Invoke(RaceLengths, MaxRaceCallbacks)
    \/ Callback

Spec == Init /\ [][Next]_vars

\* the UI thread alone, every key, any number of events
NextKeys ==
    \/ RunLoopTest \/ NoEvent
    \/ QuitEvent(Unbounded) \/ KeyUp(Unbounded) \/ KeyDown(AllKeys, Unbounded)
    \/ HandleKey
    \/ Shutdown

SpecKeys == Init /\ [][NextKeys]_vars

\* keys whose handlers store to note, and the length of one whole chunk
TransientKeys == {"z", "PLUS", "MINUS"}
TransientLengths == {BytesPerChunk}

\* both threads up to the end of the main loop: two events, so that the handlers
\* start from every note and octave one event away from the initial ones
NextTransient ==
    \/ RunLoopTest \/ NoEvent
    \/ QuitEvent({MaxTransientEvents})
    \/ KeyDown(TransientKeys, {MaxTransientEvents})
    \/ HandleKey
    \/ Invoke(TransientLengths, MaxRaceCallbacks)
    \/ Callback

SpecTransient == Init /\ [][NextTransient]_vars

\* both threads; the audio thread keeps running, the UI thread may stall anywhere
SpecAudioFair == Spec /\ WF_vars(Callback)

\* both threads, each of them keeps running
UiStep == RunLoopTest \/ NoEvent \/ HandleKey \/ Shutdown
SpecFair == Spec /\ WF_vars(Callback) /\ WF_vars(UiStep)

\* audio_callback alone, called as a unit over the values of the globals it
\* reads: note (non-positive values too) and quit are set before each call
NoteInputs == {-1, 0, 1, pitch_offset, max_note}

SetGlobals ==
    /\ cb_pc \in {"idle", "done"}
    /\ n_callbacks < MaxCallbacks
    /\ cb_pc' = "idle"
    /\ \E n \in NoteInputs : note' = n
    /\ \E q \in BOOLEAN : quit' = q
    /\ UNCHANGED <<octave, table_freed, device_open, ui_pc, sym, new_note,
                   ev_kind, pre_note, pre_octave, n_events>>
    /\ UNCHANGED <<phase_double, phase_int, byte_stream, byte_stream_length,
                   iterations, chunk, ws_i, phase_increment, n_callbacks, entry_note,
                   entry_phase, quit_seen, note_reads, read_ev, ticks, chunk_note>>
    /\ UNCHANGED <<sine_wave_table, env_vars>>

NextCallback ==
    \/ SetGlobals
    \/ (cb_pc = "idle" /\ Invoke(ByteLengths, MaxCallbacks))
    \/ Callback

SpecCallback == Init /\ [][NextCallback]_vars

\* the whole of run(): startup with its failures, then both threads
NextStartup == InitData \/ SetupSdlAudio \/ Next

SpecStartup == InitStartup /\ [][NextStartup]_vars

\* audio_callback called once from phase 0 with one held note of the keyboard
\* range and a buffer of ToneChunks chunks
ToneLengths == {ToneChunks * BytesPerChunk}

SetTone ==
    /\ cb_pc = "idle"
    /\ n_callbacks = 0
    /\ \E n \in min_note..max_note : note' = n
    /\ UNCHANGED <<quit, octave, table_freed, device_open, ui_pc, sym, new_note,
                   ev_kind, pre_note, pre_octave, n_events>>
    /\ UNCHANGED <<cb_vars, sine_wave_table, env_vars>>

NextTone ==
    \/ SetTone
    \/ (n_callbacks = 0 /\ Invoke(ToneLengths, 1))
    \/ Callback

SpecTone == Init /\ [][NextTone]_vars

\* the note names: the table of note_to_char and the computed name of
\* print_note, each applied to one note at a time
NameMargin == 12

NameInputs == 0..(max_note + NameMargin)

SetNameNote ==
    /\ \E n \in NameInputs : note' = n
    /\ printed' = <<>>
    /\ UNCHANGED <<quit, octave, table_freed, device_open, ui_pc, sym, new_note,
                   ev_kind, pre_note, pre_octave, n_events>>
    /\ UNCHANGED <<cb_vars, sine_wave_table, alloc_count, buffer_size,
                   device_paused, setup_result, pitch, built_length, writes,
                   read_freed,
                   prev_event>>

NameNote ==
    /\ printed = <<>>
    /\ printed' = NamesOf(note)
    /\ UNCHANGED <<ui_vars, cb_vars, sine_wave_table, alloc_count, buffer_size,
                   device_paused, setup_result, pitch, built_length, writes,
                   read_freed,
                   prev_event>>

NextNames == SetNameNote \/ NameNote

SpecNames == Init /\ [][NextNames]_vars

\* get_pitch called for a note and for the note an octave above it: notes
\* around the keyboard and around both ends of the range of a double
PitchWindow == 24

PitchInputs ==
    LET around(c) == (c - PitchWindow)..(c + PitchWindow)
    IN  (min_note - PitchWindow)..(max_note + PitchWindow)
        \cup around(pitch_offset + 12 * (DoubleMaxExp - BitsOf(pitch_base)))
        \cup around(pitch_offset + 12 * (DoubleMinExp - DoubleMantBits))

GetPitch ==
    /\ \E n \in PitchInputs :
           pitch' = [n |-> n, p |-> get_pitch_double(n),
                     p12 |-> get_pitch_double(n + 12)]
    /\ UNCHANGED <<ui_vars, cb_vars, sine_wave_table, alloc_count, buffer_size,
                   device_paused, setup_result, printed, built_length, writes,
                   read_freed,
                   prev_event>>

NextPitch == GetPitch

SpecPitch == Init /\ [][NextPitch]_vars

\* build_sine_table called once, with a length of its own
TableLengths == 1..MaxTableLength \cup {table_length}

BuildSineTable ==
    /\ built_length = 0
    /\ \E N \in TableLengths :
           /\ sine_wave_table' = build_sine_table(N)
           /\ built_length' = N
    /\ UNCHANGED <<ui_vars, cb_vars, alloc_count, buffer_size, device_paused,
                   setup_result, printed, pitch, writes, read_freed,
                   prev_event>>

NextTable == BuildSineTable

SpecTable == InitStartup /\ [][NextTable]_vars

\* the noise program: its callback and its quit event
NextNoise == NoiseQuitEvent \/ NoiseInvoke \/ NoiseCallback

SpecNoise == Init /\ [][NextNoise]_vars

(***************************************************************************)
(* Properties                                                              *)
(***************************************************************************)
\* the callback has returned
CallbackDone == cb_pc = "done"
\* every sample of the destination buffer is zero
BufferSilent == \A p \in DOMAIN byte_stream : byte_stream[p] = 0
\* the oscillator phase is what it was when the callback was entered
PhaseUntouched == <<phase_double, phase_int>> = entry_phase
\* stereo frames of the destination buffer: 4 bytes each
FrameCount == byte_stream_length \div 4
\* the frame starting at sample position pos received a sample from the table
FrameGenerated(pos) == \E k \in DOMAIN ticks : ticks[k][1] = pos /\ ticks[k][4]
\* the last value the callback read from note
LastRead == note_reads[Len(note_reads)]
\* the handler of a key-down event for key k has run to its end
HandlerDone(k) == ui_pc \notin HandlerPcs /\ ev_kind = "keydown" /\ sym = k

\* C1: when quit is unset and note > 0, a callback over a buffer of B bytes
\* advances the phase exactly B/4 times and gives every one of its B/4 frames
\* a sample, whatever B is.
C1_EveryFrameGenerated ==
    (CallbackDone /\ ~quit_seen /\ entry_note > 0) =>
        /\ Len(ticks) = FrameCount
        /\ \A f \in 0..(FrameCount - 1) : FrameGenerated(2 * f)

\* C2: when note <= 0 throughout a callback, the buffer it returns is all zero
\* and phase_double and phase_int are what they were at entry.
C2_SilentWhenNoteNotPositive ==
    (CallbackDone /\ entry_note <= 0) => (BufferSilent /\ PhaseUntouched)

C2_Witness ==
    /\ CallbackDone /\ entry_note <= 0 /\ ~quit_seen
    /\ iterations = MaxChunks /\ Len(note_reads) = iterations
    /\ entry_phase[1] > 0

\* C3: a callback that finds quit set returns right after the zero fill: the
\* buffer is all zero, the phase is unchanged, and neither note nor the
\* wavetable has been read.
C3_QuitReturnsSilence ==
    (CallbackDone /\ quit_seen) =>
        (BufferSilent /\ PhaseUntouched /\ note_reads = <<>> /\ ticks = <<>>)

C3_Witness ==
    /\ CallbackDone /\ quit_seen
    /\ byte_stream_length >= BytesPerChunk
    /\ entry_note > 0 /\ entry_phase[1] > 0

\* C4 as stated: note is evaluated once per callback, so every frame of one
\* buffer advances by the increment of the one note value the callback read.
C4_OneNotePerCallback ==
    CallbackDone =>
        /\ \A i \in DOMAIN note_reads : note_reads[i] = note_reads[1]
        /\ \A k \in DOMAIN ticks : ticks[k][2] = PhaseIncrement(note_reads[1])

\* C4: note is evaluated once per chunk of chunk_size samples: every frame of
\* a chunk advances by the increment of the note value read when that chunk
\* began, and a callback that ran to its end made one test read and one pitch
\* read per chunk.
C4_OneNotePerChunk ==
    /\ \A k \in DOMAIN ticks :
         LET c == ticks[k][1] \div chunk_size
         IN  c \in DOMAIN chunk_note /\ ticks[k][2] = PhaseIncrement(chunk_note[c])
    /\ (CallbackDone /\ ~quit_seen) =>
         /\ Len(note_reads) = 2 * iterations
         /\ DOMAIN chunk_note = 0..(iterations - 1)

C4_Witness ==
    /\ CallbackDone
    /\ \E c1, c2 \in DOMAIN chunk_note : chunk_note[c1] # chunk_note[c2]
    /\ \E k1, k2 \in DOMAIN ticks : ticks[k1][2] # ticks[k2][2]

\* C5: a read of note the callback makes while a key-down handler runs sees the
\* value before the event or the value the handler leaves, never a value in
\* between.
C5_NoIntermediateRead ==
    (ui_pc \notin HandlerPcs /\ ev_kind = "keydown" /\ read_ev > 0
     /\ read_ev = n_events /\ note_reads # <<>>) =>
        LastRead \in {pre_note, note}

\* the increment of every reachable note is positive and below the table length
ReachableIncrementsInRange ==
    \A n \in min_note..max_note :
        0 < PhaseIncrement(n) /\ PhaseIncrement(n) < table_length * PhaseScale

\* C6: the phase stays in [0, table_length) after every advance-and-wrap, so
\* every index passes the range guard, during any sequence of callbacks.
C6_PhaseInRange ==
    /\ ReachableIncrementsInRange
    /\ 0 <= phase_double /\ phase_double < table_length * PhaseScale
    /\ 0 <= phase_int /\ phase_int < table_length
    /\ \A k \in DOMAIN ticks : ticks[k][4] /\ 0 <= ticks[k][3] /\ ticks[k][3] < table_length

C6_Witness ==
    /\ CallbackDone
    /\ \E k \in DOMAIN ticks : k > 1 /\ ticks[k][3] < ticks[k - 1][3]

\* C7: once a key-down handler has run to its end, 0 <= octave <= 6 and
\* min_note <= note <= max_note, after any sequence of events.
C7_OctaveAndNoteInRange ==
    ui_pc \notin HandlerPcs =>
        /\ 0 <= octave /\ octave <= max_octave
        /\ min_note <= note /\ note <= max_note

C7_Witness ==
    /\ HandlerDone("MINUS")
    /\ octave = 0 /\ note = min_note /\ pre_note < min_note + 12 /\ pre_octave = 1

\* C8: PLUS at octave 6 leaves octave at 6 and note as it was; MINUS at
\* octave 0 leaves octave at 0 and note as it was.
C8_OctaveChangeAtLimit ==
    /\ (HandlerDone("PLUS") /\ pre_octave = max_octave) =>
          (octave = max_octave /\ note = pre_note)
    /\ (HandlerDone("MINUS") /\ pre_octave = 0) =>
          (octave = 0 /\ note = pre_note)

C8_Witness ==
    /\ HandlerDone("PLUS") /\ pre_octave = max_octave
    /\ octave = max_octave /\ note = pre_note /\ pre_note + 12 <= max_note

\* the smaller and the larger of two integers
Min(a, b) == IF a < b THEN a ELSE b
Max(a, b) == IF a > b THEN a ELSE b

\* C9: PLUS below octave 6 gives octave + 1 and note = min(note + 12,
\* max_note); MINUS above octave 0 gives octave - 1 and note = max(note - 12,
\* min_note); the note moves only when the octave did.
C9_OctaveChange ==
    /\ (HandlerDone("PLUS") /\ pre_octave < max_octave) =>
          (octave = pre_octave + 1 /\ note = Min(pre_note + 12, max_note))
    /\ (HandlerDone("MINUS") /\ pre_octave > 0) =>
          (octave = pre_octave - 1 /\ note = Max(pre_note - 12, min_note))
    /\ ((HandlerDone("PLUS") \/ HandlerDone("MINUS")) /\ octave = pre_octave) =>
          note = pre_note

C9_Witness ==
    /\ HandlerDone("PLUS") /\ pre_octave = max_octave - 1 /\ octave = max_octave
    /\ note = pre_note + 12

\* C10: a note key sets note to its base plus 12 times the octave and leaves
\* the octave alone, whatever note was; along the lower row the bases run
\* 12, 13, .. 26 and along the upper row 24, 25, .. 40.
C10_NoteKeySetsNote ==
    /\ \A i \in DOMAIN LowerRow :
         HandlerDone(LowerRow[i]) =>
            (note = (11 + i) + 12 * pre_octave /\ octave = pre_octave)
    /\ \A i \in DOMAIN UpperRow :
         HandlerDone(UpperRow[i]) =>
            (note = (23 + i) + 12 * pre_octave /\ octave = pre_octave)
    /\ Len(LowerRow) = 15 /\ Len(UpperRow) = 17

C10_Witness ==
    /\ HandlerDone("PERIOD") /\ pre_octave = max_octave
    /\ note = 26 + 12 * max_octave /\ pre_note # note

\* the callback is executing
CallbackRunning == cb_pc \in {"memset", "quit_test", "ws_test", "ws_read", "ws_loop"}
\* the work done so far by the invocation is within what its buffer length allows
CallbackWithinBound ==
    /\ Len(ticks) <= FrameCount
    /\ Len(note_reads) <= 2 * Iterations(byte_stream_length)
    /\ cb_pc \in {"ws_test", "ws_read", "ws_loop"} =>
          (iterations = Iterations(byte_stream_length) /\ chunk < iterations)

\* C11: every callback invocation returns, whatever the UI thread does or fails
\* to do, after a number of chunk and frame steps bounded by the buffer length.
C11_CallbackTerminates ==
    /\ [](CallbackWithinBound)
    /\ (CallbackRunning ~> CallbackDone)

C11_Witness ==
    /\ CallbackDone /\ ~quit_seen /\ Len(ticks) = FrameCount /\ FrameCount > 0
    /\ ui_pc \in HandlerPcs

\* C12: when a callback has returned, the left and the right sample of every
\* stereo frame of its buffer are equal.
C12_ChannelsEqual ==
    CallbackDone =>
        \A k \in 0..(FrameCount - 1) : byte_stream[2 * k] = byte_stream[2 * k + 1]

C12_Witness ==
    /\ CallbackDone /\ FrameCount > 0
    /\ \E k \in 0..(FrameCount - 1) :
          byte_stream[2 * k] # 0 /\ byte_stream[2 * k] = byte_stream[2 * k + 1]

\* the phase as the pair of its two representations
Phase == <<phase_double, phase_int>>

\* C13: a step changes the phase only if it is the frame loop of a callback
\* that did not see quit and read a positive note for the chunk, and that loop
\* starts from the phase it finds: no key handler, no silent callback and no
\* note or octave change moves or resets the phase.
C13_PhaseOnlyByGeneration ==
    [][Phase' # Phase =>
         /\ cb_pc = "ws_loop" /\ ~quit_seen
         /\ chunk \in DOMAIN chunk_note /\ chunk_note[chunk] > 0
         /\ Len(ticks') > Len(ticks)
         /\ LET t == ticks'[Len(ticks) + 1]
            IN  t[3] = ((phase_double + t[2]) % (table_length * PhaseScale)) \div PhaseScale]_vars

C13_Witness ==
    /\ cb_pc = "ws_loop" /\ phase_double > 0
    /\ chunk_note[chunk] # entry_note /\ ev_kind = "keydown"

\* floor((k * d) mod table_length) for an increment d in units of 1/PhaseScale:
\* floor(k * d) is k * floor(d) + floor(k * frac(d))
ModuloIndex(k, d) ==
    (k * (d \div PhaseScale) + (k * (d % PhaseScale)) \div PhaseScale) % table_length

\* floor(fmod(k * ((440 / 44100) * 1024), 1024)), in exact arithmetic
ReferenceIndexA440(k) ==
    ((k * pitch_base * table_length) % (table_length * sample_rate)) \div sample_rate

\* C14: with one held note and the phase starting at 0, the index of the k-th
\* generated sample is floor((k * D) mod table_length) for the increment D of
\* the note, 0 < D < table_length; for note 57 it is the index of the
\* reference floor(fmod(k * ((440/44100) * 1024), 1024)).
C14_IndexIsModulo ==
    \A k \in DOMAIN ticks :
        /\ ticks[k][2] = PhaseIncrement(entry_note)
        /\ 0 < ticks[k][2] /\ ticks[k][2] < table_length * PhaseScale
        /\ ticks[k][3] = ModuloIndex(k, ticks[k][2])
        /\ entry_note = pitch_offset => ticks[k][3] = ReferenceIndexA440(k)

C14_Witness ==
    /\ CallbackDone /\ entry_note = pitch_offset /\ entry_phase = <<0, 0>>
    /\ Len(ticks) >= 100
    /\ ticks[100][3] = ReferenceIndexA440(100)
    /\ \E k \in DOMAIN ticks : k > 1 /\ ticks[k][3] < ticks[k - 1][3]

\* C15: once quit is set it stays set; the event loop starts no further
\* iteration, and run() goes on to cleanup and returns; a callback that makes
\* its quit test while the flag is set returns at once with a silent buffer.
C15_QuitIsFinal ==
    /\ [][quit => quit']_vars
    /\ [][quit => ~(ui_pc = "while" /\ ui_pc' = "poll")]_vars
    /\ [][(quit /\ cb_pc = "quit_test" /\ cb_pc' # cb_pc) =>
              (cb_pc' = "done" /\ BufferSilent' /\ ticks' = <<>> /\ Phase' = Phase)]_vars
    /\ (quit ~> ui_pc = "done")

C15_Witness ==
    /\ quit /\ ui_pc = "done" /\ ~device_open
    /\ CallbackDone /\ quit_seen /\ BufferSilent /\ byte_stream_length > 0

\* the step takes a key-up event, or a key-down event of a key without a case
\* in the switch, from the queue
InertEventStep ==
    /\ ui_pc = "poll" /\ n_events' = n_events + 1
    /\ \/ ev_kind' = "keyup"
       \/ (ev_kind' = "keydown" /\ sym' \in OtherKeys)

\* C16: a key-up event, and a key-down event of a key that is neither a note
\* key nor PLUS nor MINUS, is handled in full without changing note, octave,
\* the phase or quit.
C16_InertEvents ==
    [][InertEventStep =>
         /\ note' = note /\ octave' = octave /\ quit' = quit /\ Phase' = Phase
         /\ ui_pc' = "poll"]_vars

C16_Witness ==
    /\ ev_kind = "keydown" /\ sym \in OtherKeys /\ n_events > 0 /\ ui_pc = "poll"
    /\ phase_double > 0 /\ note = init_note /\ octave = init_octave

\* setup_sdl_audio has returned a non-zero code
SetupFailed == setup_result \in {1, 2}

\* C17: when the device cannot be opened or grants another sample format,
\* setup_sdl_audio returns non-zero leaving the device paused and buffer_size
\* as requested; run() is in its event loop, and past it only after quit; no
\* callback ever runs and the process does not fault.
C17_SetupFailureKeepsRunning ==
    SetupFailed =>
        /\ device_paused /\ buffer_size = requested_buffer_size
        /\ (setup_result = 1 => ~device_open)
        /\ n_callbacks = 0 /\ cb_pc = "idle"
        /\ ui_pc \in {"while", "poll", "cleanup", "close_audio", "done"} \cup HandlerPcs
        /\ (ui_pc \in {"cleanup", "close_audio", "done"} => quit)

C17_Witness ==
    /\ setup_result = 2 /\ sine_wave_table = BuiltTable
    /\ HandlerDone("z") /\ note = 12 + 12 * init_octave /\ ~quit

\* C18: when the allocation of the table fails, alloc_count stays as it was,
\* sine_wave_table is null, and run() goes on to the audio setup and the
\* event loop.
C18_AllocFailureKeepsRunning ==
    (sine_wave_table = NullTable /\ ui_pc # "init_data") =>
        (alloc_count = 0 /\ ui_pc # "crashed")

\* the name the claim gives note n: its pitch class and one octave digit
PitchClasses ==
    <<"C-", "C#", "D-", "D#", "E-", "F-", "F#", "G-", "G#", "A-", "A#", "B-">>

ClaimedName(n) == PitchClasses[(n % 12) + 1] \o DigitChars[(n \div 12) - 1 + 1]

\* C19: for every note of 12..131 the table name and the computed name are
\* both the pitch class of n mod 12 followed by the digit (n div 12) - 1, so
\* the pitch class repeats every 12 notes; 57 is "A-3" and 60 is "C-4".
C19_NoteNames ==
    (printed # <<>> /\ note \in min_note..max_note) =>
        /\ printed[1] = ClaimedName(note)
        /\ printed[2] = printed[1]
        /\ (note = 57 => printed[1] = "A-3")
        /\ (note = 60 => printed[1] = "C-4")
        /\ (note + 12 <= max_note =>
               note_to_char(note + 12) =
                   PitchClasses[(note % 12) + 1] \o DigitChars[(note \div 12) + 1])

C19_Witness == note = 57 /\ printed = <<"A-3", "A-3">>

\* the wavetable is the one build_sine_table wrote and has not been freed
TableBuilt == sine_wave_table = BuiltTable /\ ~table_freed

\* C20: once init_data has built the table, no step of the callback and no
\* key event changes an entry of it or its length of table_length entries;
\* it is the same table in every later state, up to and past cleanup_data,
\* which frees it without writing to it.
C20_TableReadOnly ==
    [][(sine_wave_table = BuiltTable) =>
           /\ sine_wave_table' = BuiltTable
           /\ DOMAIN sine_wave_table' = 0..(table_length - 1)]_vars

C20_Witness ==
    /\ TableBuilt
    /\ CallbackDone /\ \E k \in DOMAIN ticks : ticks[k][4]
    /\ HandlerDone("z")

\* the second double is twice the first, to a millionth
Doubled(x, y) ==
    /\ x.cls = "finite" /\ y.cls = "finite"
    /\ y.e = x.e + 1
    /\ y.m - x.m <= x.m \div 1000000 /\ x.m - y.m <= x.m \div 1000000

\* the digits of both results are modelled
Modelled(x, y) == x.cls # "tiny" /\ y.cls # "tiny"

Abs(x) == IF x < 0 THEN -x ELSE x

\* <<q, r>> with |sin(2*pi*i/N)| * 32767 = q + r / AngleScale
SineProduct(i, N) ==
    LET v == SinOfStep(i, N)
    IN  IF v >= 0 THEN MulDivQR(v, INT16_MAX, AngleScale)
        ELSE MulDivQR(-v, INT16_MAX, AngleScale)

\* round(sin(2*pi*i/N) * 32767), halves away from zero
RoundedSine(i, N) ==
    LET p == SineProduct(i, N)
        mag == IF 2 * p[2] >= AngleScale THEN p[1] + 1 ELSE p[1]
    IN  IF SinOfStep(i, N) < 0 THEN -mag ELSE mag

\* the product is within a hundredth of a half: the fixed-point sine does
\* not tell to which side it rounds
NearHalf(i, N) ==
    Abs(2 * SineProduct(i, N)[2] - AngleScale) <= AngleScale \div 50

\* C22 as stated: build_sine_table(N) writes N entries, entry i being
\* round(sin(2*pi*i/N) * 32767).
C22_EntriesRounded ==
    built_length > 0 =>
    /\ DOMAIN sine_wave_table = 0..(built_length - 1)
    /\ \A i \in DOMAIN sine_wave_table :
           ~NearHalf(i, built_length) => sine_wave_table[i] = RoundedSine(i, built_length)

\* C22, amended: build_sine_table(N) writes exactly the entries 0..N-1;
\* entry i is sin(2*pi*i/N) * 32767 with its fraction dropped (truncated
\* toward zero), so it is the rounded value or one step nearer to zero;
\* entry 0 is 0, no entry exceeds 32767 in magnitude, and a table whose
\* length is a multiple of 4 holds 32767 and -32767.
C22_EntriesTruncated ==
    built_length > 0 =>
    /\ DOMAIN sine_wave_table = 0..(built_length - 1)
    /\ sine_wave_table[0] = 0
    /\ \A i \in DOMAIN sine_wave_table :
           LET entry == sine_wave_table[i]
               rounded == RoundedSine(i, built_length)
           IN  /\ Abs(entry) <= INT16_MAX
               /\ Abs(entry) = SineProduct(i, built_length)[1]
               /\ Abs(entry) <= Abs(rounded) /\ Abs(rounded) <= Abs(entry) + 1
               /\ (entry > 0 => rounded > 0) /\ (entry < 0 => rounded < 0)
    /\ (built_length % 4 = 0 =>
           /\ sine_wave_table[built_length \div 4] = INT16_MAX
           /\ sine_wave_table[3 * (built_length \div 4)] = -INT16_MAX)

\* a table other than the program's, with an entry that is not the rounded value
C22_Witness ==
    /\ built_length # table_length
    /\ built_length % 4 = 0
    /\ \E i \in DOMAIN sine_wave_table :
           /\ ~NearHalf(i, built_length)
           /\ sine_wave_table[i] < 0
           /\ sine_wave_table[i] = RoundedSine(i, built_length) + 1

\* how often the noise callback stored to position p
WriteCount(p) == Cardinality({k \in DOMAIN writes : writes[k] = p})

\* C23: a callback of the noise program that found quit unset, on a buffer
\* of a whole number of stereo frames, has stored to every Sint16 position
\* below byte_length/2 exactly once and to no other position, the same
\* value left and right; one that found quit set leaves only zeros.
C23_NoiseFillsBuffer ==
    (CallbackDone /\ n_callbacks > 0 /\ byte_stream_length % 4 = 0) =>
        IF quit_seen
          THEN BufferSilent /\ writes = <<>>
          ELSE /\ \A p \in 0..((byte_stream_length \div 2) - 1) : WriteCount(p) = 1
               /\ \A k \in DOMAIN writes :
                      0 <= writes[k] /\ writes[k] < byte_stream_length \div 2
               /\ \A f \in 0..((byte_stream_length \div 4) - 1) :
                      /\ byte_stream[2 * f] = byte_stream[2 * f + 1]
                      /\ byte_stream[2 * f] # StaleSample

C23_Witness ==
    /\ CallbackDone /\ ~quit_seen
    /\ byte_stream_length = 4 * MaxNoiseFrames
    /\ Len(writes) = 2 * MaxNoiseFrames
    /\ byte_stream[0] = ScaleSample(-INT16_MAX)
    /\ byte_stream[2] = ScaleSample(INT16_MAX - 1)

\* position p holds the scaled table entry of a tick of this invocation
\* that wrote the frame p belongs to
HoldsGenerated(p) ==
    \E k \in DOMAIN ticks :
        /\ ticks[k][4]
        /\ ticks[k][1] = 2 * (p \div 2)
        /\ 10 * byte_stream[p] <= 3 * sine_wave_table[ticks[k][3]] + 9
        /\ 10 * byte_stream[p] >= 3 * sine_wave_table[ticks[k][3]] - 9

\* C24: when a callback returns, every position of the buffer holds 0 or the
\* sample generated for its frame during this invocation, whatever the
\* buffer held before; nothing stale is left, the tail after the last whole
\* chunk included.
C24_NothingStale ==
    (CallbackDone /\ n_callbacks > 0) =>
        \A p \in DOMAIN byte_stream :
            /\ byte_stream[p] # StaleSample
            /\ byte_stream[p] = 0 \/ HoldsGenerated(p)

C24_Witness ==
    /\ CallbackDone
    /\ byte_stream_length = BytesPerChunk + 4
    /\ \E p \in DOMAIN byte_stream : byte_stream[p] # 0 /\ HoldsGenerated(p)
    /\ byte_stream[chunk_size] = 0 /\ byte_stream[chunk_size + 1] = 0

\* C25: within one invocation the j-th phase advance writes frame j-1: the
\* frames are generated in increasing order across the chunk boundaries,
\* none twice and none skipped between the first and the last one written.
C25_FramesInOrder ==
    \A j \in DOMAIN ticks :
        /\ ticks[j][1] = 2 * (j - 1)
        /\ ticks[j][4]
        /\ ticks[j][1] + 1 <= (byte_stream_length \div 2) - 1
        /\ byte_stream[ticks[j][1]] # StaleSample

C25_Witness ==
    /\ CallbackDone
    /\ Len(ticks) = MaxChunks * (chunk_size \div 2)
    /\ ticks[(chunk_size \div 2) + 1][1] = chunk_size

\* C26: after every tick phase_int is floor(phase_double) and lies in
\* [0, table_length), in every reachable state; the index guard rejects no
\* tick, so every frame of a processed chunk is written.
C26_IndexIsFloorInRange ==
    /\ phase_int * PhaseScale <= phase_double
    /\ phase_double < (phase_int + 1) * PhaseScale
    /\ 0 <= phase_int /\ phase_int < table_length
    /\ \A k \in DOMAIN ticks :
           /\ ticks[k][4]
           /\ 0 <= ticks[k][3] /\ ticks[k][3] < table_length
           /\ byte_stream[ticks[k][1]] = ScaleSample(sine_wave_table[ticks[k][3]])
           /\ byte_stream[ticks[k][1] + 1] = byte_stream[ticks[k][1]]
    /\ Len(ticks) % (chunk_size \div 2) = 0

\* a held note has wrapped around the table
C26_Witness ==
    /\ CallbackDone
    /\ Len(ticks) = ToneChunks * (chunk_size \div 2)
    /\ \E k \in DOMAIN ticks : k > 1 /\ ticks[k][3] < ticks[k - 1][3]
    /\ phase_double % PhaseScale # 0

\* s is raw * 0.3 with its fraction dropped
IsThreeTenthsTruncated(s, raw) ==
    IF raw >= 0
      THEN 0 <= s /\ 10 * s <= 3 * raw /\ 3 * raw < 10 * (s + 1)
      ELSE s <= 0 /\ 3 * raw <= 10 * s /\ 10 * (s - 1) < 3 * raw

\* C27: every sample the callback writes is the table entry at the index of
\* its tick times 0.3, truncated toward zero; so no sample exceeds 9830 in
\* magnitude and every one fits a signed 16-bit integer.
C27_SampleIsScaledEntry ==
    /\ \A k \in DOMAIN ticks :
           ticks[k][4] =>
               /\ IsThreeTenthsTruncated(byte_stream[ticks[k][1]],
                                         sine_wave_table[ticks[k][3]])
               /\ byte_stream[ticks[k][1] + 1] = byte_stream[ticks[k][1]]
    /\ cb_pc \notin {"idle", "memset"} =>
           \A p \in DOMAIN byte_stream :
               /\ -9830 <= byte_stream[p] /\ byte_stream[p] <= 9830
               /\ -INT16_MAX - 1 <= byte_stream[p] /\ byte_stream[p] <= INT16_MAX

\* samples of both signs have been written, one from an entry whose
\* product has a fraction to drop
C27_Witness ==
    /\ CallbackDone
    /\ \E k \in DOMAIN ticks : byte_stream[ticks[k][1]] > 9000
    /\ \E k \in DOMAIN ticks :
           /\ byte_stream[ticks[k][1]] < -9000
           /\ (3 * sine_wave_table[ticks[k][3]]) % 10 # 0

\* C28: no callback reads sine_wave_table after cleanup_data has freed it:
\* a callback that passed its quit test has returned before the table is
\* released, under every interleaving of the audio thread with the shutdown
\* of run().
C28_NoReadAfterFree ==
    /\ ~read_freed
    /\ table_freed => cb_pc \notin {"ws_test", "ws_read", "ws_loop"}

\* the largest int16 index write_samples may store to in a buffer of len bytes
LastWholeChunkIndex(len) == chunk_size * ((len \div 2) \div chunk_size) - 1

\* C29: for every byte length, also one that is not a multiple of 4 or of
\* 128, every int16 index the callback stores a sample to lies in [0, L/2):
\* no index exceeds 64 * floor((L/2)/64) - 1, and a callback that generates
\* its last whole chunk stores exactly up to that index.
C29_WritesInsideBuffer ==
    /\ \A k \in DOMAIN ticks :
           /\ ticks[k][1] >= 0
           /\ ticks[k][1] + 1 <= LastWholeChunkIndex(byte_stream_length)
           /\ ticks[k][1] + 1 < byte_stream_length \div 2
           /\ {ticks[k][1], ticks[k][1] + 1} \subseteq DOMAIN byte_stream
    /\ (CallbackDone /\ (Iterations(byte_stream_length) - 1) \in DOMAIN chunk_note) =>
           ticks[Len(ticks)][1] + 1 = LastWholeChunkIndex(byte_stream_length)

C29_Witness ==
    /\ CallbackDone
    /\ byte_stream_length = MaxChunks * BytesPerChunk + 1
    /\ byte_stream_length % 4 # 0
    /\ ticks # <<>>
    /\ ticks[Len(ticks)][1] + 1 = MaxChunks * chunk_size - 1

\* the lowest and the highest note of an octave: the initial note 30 at
\* octave 2 is six below the lowest key, case SDLK_p assigns the highest
LowestInOctave(o) == (init_note - init_octave * 12) + 12 * o
HighestInOctave(o) == SwitchNewNote("p") + 12 * o

\* C30: in every state reached by completed key events from note = 30,
\* octave = 2, the note lies between 6 + 12 * octave and 40 + 12 * octave;
\* so it never exceeds 112, and the branch note = max_note of the octave
\* increment is never taken.
C30_NoteWithinOctave ==
    /\ ui_pc \notin HandlerPcs =>
           /\ LowestInOctave(octave) <= note
           /\ note <= HighestInOctave(octave)
           /\ note <= HighestInOctave(max_octave)
    /\ ui_pc = "plus_clamp" => ClampMax(note) = note

C30_Witness ==
    /\ HandlerDone("PLUS")
    /\ octave = max_octave
    /\ pre_octave = max_octave - 1
    /\ note = HighestInOctave(max_octave)
    /\ note = 112

\* the callback read note at least once while a handler was between its stores
\* and saw a value below every note a completed handler leaves
ReadTransient ==
    /\ read_ev > 0
    /\ \E k \in DOMAIN note_reads : note_reads[k] < min_note

\* C31: with the statements of the key handlers interleaved with the callback,
\* every value note holds, the values between the two stores of a handler
\* included, is strictly positive; so every read of note by the callback is
\* positive, the branch for note <= 0 is never taken, and a callback that
\* passed the quit test generates every frame of every whole chunk.
C31_ReadsPositive ==
    /\ note > 0
    /\ \A k \in DOMAIN note_reads : NoteActive(note_reads[k])
    /\ (CallbackDone /\ ~quit_seen) =>
           /\ DOMAIN chunk_note = 0..(iterations - 1)
           /\ Len(ticks) = iterations * (chunk_size \div 2)
           /\ \A f \in 0..(iterations * (chunk_size \div 2) - 1) :
                  FrameGenerated(2 * f)

C31_Witness ==
    /\ CallbackDone /\ ~quit_seen
    /\ ReadTransient
    /\ LowestInOctave(0) \in {note_reads[k] : k \in DOMAIN note_reads}
    /\ iterations = 1
    /\ Len(ticks) = chunk_size \div 2

\* the handler of key second has run to its end, and the event handled right
\* before it was a key-down of key first
OctaveKeysInTurn(first, second) == HandlerDone(second) /\ prev_event[1] = first
\* note and octave are what they were before the first of the two events
Restored == note = prev_event[2] /\ octave = prev_event[3]

\* C32: from every reachable state with octave < 6, an octave increment
\* followed at once by an octave decrement leaves note and octave as they
\* were before the two events.
C32_UpThenDownRestores ==
    (OctaveKeysInTurn("PLUS", "MINUS") /\ prev_event[3] < max_octave) => Restored

C32_Witness ==
    /\ OctaveKeysInTurn("PLUS", "MINUS")
    /\ prev_event[3] = max_octave - 1
    /\ prev_event[2] = HighestInOctave(max_octave - 1)
    /\ pre_note = HighestInOctave(max_octave)
    /\ Restored

\* C33 as stated: from every reachable state with octave > 0, an octave
\* decrement followed at once by an octave increment leaves note and octave
\* as they were before the two events.
C33_DownThenUpRestores ==
    (OctaveKeysInTurn("MINUS", "PLUS") /\ prev_event[3] > 0) => Restored

\* C33: from every reachable state with octave > 0 whose note is at least
\* min_note + 12, an octave decrement followed at once by an octave increment
\* leaves note and octave as they were; from a lower note the decrement
\* clamps to min_note and the increment ends twelve above min_note.
C33_DownThenUpRestoresUnclamped ==
    (OctaveKeysInTurn("MINUS", "PLUS") /\ prev_event[3] > 0) =>
        IF ShiftDown(prev_event[2]) >= min_note
          THEN Restored
          ELSE note = ShiftUp(min_note) /\ octave = prev_event[3]

C33_Witness ==
    /\ OctaveKeysInTurn("MINUS", "PLUS")
    /\ prev_event[3] = 1
    /\ prev_event[2] = ShiftUp(min_note)
    /\ pre_note = min_note
    /\ Restored

\* the first two characters of a printed name are one of the pitch classes
HasPitchClass(name) ==
    /\ Len(name) > 2
    /\ \E c \in DOMAIN PitchClasses : SubSeq(name, 1, 2) = PitchClasses[c]

\* C34: for every note a note key sets in a reachable state, the handler
\* prints a real note name: note_to_char does not return "err" and print_note
\* does not print a null pitch class.
C34_NoteKeyNamesReal ==
    /\ \A k \in NoteKeys : HandlerDone(k) => printed = NamesOf(note)
    /\ printed # <<>> =>
           /\ printed[1] # "err"
           /\ HasPitchClass(printed[1])
           /\ HasPitchClass(printed[2])
           /\ SubSeq(printed[2], 1, 2) # SubSeq(NullChars, 1, 2)

C34_Witness ==
    /\ HandlerDone("p")
    /\ octave = max_octave
    /\ note = HighestInOctave(max_octave)
    /\ printed = <<"E-8", "E-8">>

\* cleanup_data has printed alloc_count
CleanupPrinted == ui_pc \in {"close_audio", "done"}

\* C35: alloc_count is 0 or 1 in every state; a step raises it only by one,
\* in init_data when the allocation succeeded, and lowers it only by one, in
\* cleanup_data when the pointer freed is not null; and it is 0 once
\* cleanup_data has printed it, whether the allocation succeeded or failed.
C35_AllocCountBalanced ==
    /\ [](alloc_count \in {0, 1})
    /\ [](CleanupPrinted => alloc_count = 0)
    /\ [][/\ alloc_count' > alloc_count =>
                 /\ ui_pc = "init_data"
                 /\ sine_wave_table' # NullTable
                 /\ alloc_count' = alloc_count + 1
          /\ alloc_count' < alloc_count =>
                 /\ ui_pc = "cleanup"
                 /\ sine_wave_table # NullTable
                 /\ table_freed'
                 /\ alloc_count' = alloc_count - 1
          /\ (ui_pc = "cleanup" /\ sine_wave_table = NullTable) =>
                 alloc_count' = alloc_count]_vars

C35_Witness ==
    /\ CleanupPrinted
    /\ sine_wave_table = BuiltTable /\ table_freed
    /\ alloc_count = 0
    /\ n_callbacks > 0

====
